---- MODULE Spec2Model ----
(***************************************************************************)
(* Recording session manager and pipeline orchestrator of the meeting      *)
(* notes bot: main.py (start_meeting, stop_meeting, on_voice_state_update) *)
(* and utils/audio_processor.py (AudioProcessor), with the transcription,  *)
(* summarization and persistence collaborators as far as the orchestrator  *)
(* observes them.  Every action is one run of a coroutine between two      *)
(* suspension points of the asyncio event loop.                            *)
(***************************************************************************)
EXTENDS Integers, Sequences, FiniteSets, TLC

\* ------------------------------------------------------------- bounds
MaxSessions == 3    \* successful start requests in one behaviour
FewSessions == 2    \* the same, where every failure or every server is explored
MaxTasks == 2       \* handler invocations (stop / disruption) in flight
MaxBuf == 2         \* frames appended to one audio buffer
MaxTime == 1        \* ticks of the wall clock (datetime.now(), in seconds)

Servers == {1, 2}
Channels == {9}
Frames == {<<1, 2>>}
DistinctFrames == {<<1>>, <<2, 3>>}
GivenNames == {"standup"}
Transcripts == {"t1"}
NotesTexts == {"n1"}
Causes == {"e1"}

SessionIds == 1..MaxSessions
TaskIds == 1..MaxTasks

VARIABLES
    recordings,         \* AudioProcessor.recordings: server_id -> recording_data (by reference)
    heap,               \* the recording_data dicts, by session: buffer, flag, timer task
    listening,          \* voice_client.is_listening(), per server
    active_recordings,  \* main.active_recordings: server_id -> session metadata
    files,              \* temp_audio/: path -> payload of the WAV file
    meetings,           \* rows of the meetings table, in insertion order
    tasks,              \* the handler coroutines in flight, their locals and results
    now,                \* datetime.now()
    started             \* number of sessions created so far (uuid4 supply)

vars == <<recordings, heap, listening, active_recordings, files, meetings,
          tasks, now, started>>

\* ------------------------------------------------------------- dicts
\* a deletion that empties the dict
DelAll(d, k) == [x \in {} |-> d[x]]

\* del d[k]
Del(d, k) == [x \in (DOMAIN d) \ {k} |-> d[x]]

\* d[k] = v
Put(d, k, v) == [x \in (DOMAIN d) \cup {k} |-> IF x = k THEN v ELSE d[x]]

\* ------------------------------------------------------------- values
\* f"recording_{server_id}_{datetime.now().strftime('%Y%m%d_%H%M%S')}.wav"
FilePath(server_id, t) == <<server_id, t>>

\* meeting_name, or f"Meeting-{datetime.now()...}" when none was given
MeetingName(given, t) == IF given = "" THEN <<"Meeting", t>> ELSE <<given, 0>>

\* the notes _process_transcript returns instead of raising
ErrorNotes == {"Error generating meeting notes: e1", "Error: Failed to generate meeting notes."}

NoResult == [outcome |-> "none", cause |-> "", meeting_id |-> 0, notes |-> ""]

NoMeta == [session_id |-> 0, meeting_name |-> <<"", 0>>, start_time |-> 0, channel_id |-> 0]

IdleTask == [pc |-> "idle", kind |-> "", server_id |-> 0, session |-> NoMeta,
             recording_data |-> 0, finalized |-> 0, file_path |-> <<0, 0>>,
             transcription |-> "", notes_arg |-> "", notes |-> "",
             stages |-> <<>>, failed |-> "", removes |-> 0, result |-> NoResult]

\* ------------------------------------------------------------- initial state
Init ==
    /\ recordings = <<>>
    /\ heap = <<>>
    /\ listening = [s \in Servers |-> FALSE]
    /\ active_recordings = <<>>
    /\ files = <<>>
    /\ meetings = <<>>
    /\ tasks = [t \in TaskIds |-> IdleTask]
    /\ now = 0
    /\ started = 0

\* ------------------------------------------------------------- AudioProcessor
\* A recording_data dict that neither recordings nor a running stop_recording refers
\* to any more is garbage: its frame list is freed.  The auto-stop task is kept, the
\* event loop holds it.
Free(h, recs, tks) ==
    [x \in DOMAIN h |->
        IF \/ \E s \in DOMAIN recs : recs[s] = x
           \/ \E t \in TaskIds : tks[t].recording_data = x
        THEN h[x]
        ELSE [h[x] EXCEPT !.audio_buffer = <<>>]]

\* AudioProcessor.start_recording: a fresh recording_data replaces whatever
\* recordings held for the server, listening starts, the auto-stop task is created.
StartRecording(server_id, sid) ==
    /\ recordings' = Put(recordings, server_id, sid)
    /\ heap' = Free(Put(heap, sid, [audio_buffer |-> <<>>, server_id |-> server_id,
                                    cancelled |-> FALSE, auto_stop_task |-> "pending"]),
                    recordings', tasks)
    /\ listening' = [listening EXCEPT ![server_id] = TRUE]

\* the closure _create_audio_sink returns, called by the transport while it listens
AudioSink(server_id, data) ==
    /\ listening[server_id]
    /\ IF server_id \in DOMAIN recordings /\ ~heap[recordings[server_id]].cancelled
       THEN /\ Len(heap[recordings[server_id]].audio_buffer) < MaxBuf
            /\ heap' = [heap EXCEPT ![recordings[server_id]].audio_buffer = Append(@, data)]
       ELSE UNCHANGED heap
    /\ UNCHANGED <<recordings, listening, active_recordings, files, meetings, tasks,
                   now, started>>

\* _auto_stop_recording with a sleep that a cancel() does not interrupt
AutoStopRecordingUncancelled(sid) ==
    /\ sid \in DOMAIN heap
    /\ heap[sid].auto_stop_task # "done"
    /\ LET server_id == heap[sid].server_id
           fired == [heap EXCEPT ![sid].auto_stop_task = "done"]
       IN  IF server_id \in DOMAIN recordings
           THEN /\ recordings' = Del(recordings, server_id)
                /\ heap' = Free([fired EXCEPT ![recordings[server_id]].cancelled = TRUE],
                                recordings', tasks)
                /\ listening' = [listening EXCEPT ![server_id] = FALSE]
           ELSE /\ heap' = fired
                /\ UNCHANGED <<listening, recordings>>
    /\ UNCHANGED <<active_recordings, files, meetings, tasks, now, started>>

\* AudioProcessor._auto_stop_recording, from the end of its sleep
AutoStopRecording(sid) ==
    /\ sid \in DOMAIN heap
    /\ heap[sid].auto_stop_task = "pending"
    /\ LET server_id == heap[sid].server_id
           fired == [heap EXCEPT ![sid].auto_stop_task = "done"]
       IN  IF server_id \in DOMAIN recordings
           THEN /\ recordings' = Del(recordings, server_id)
                /\ heap' = Free([fired EXCEPT ![recordings[server_id]].cancelled = TRUE],
                                recordings', tasks)
                /\ listening' = [listening EXCEPT ![server_id] = FALSE]
           ELSE /\ heap' = fired
                /\ UNCHANGED <<listening, recordings>>
    /\ UNCHANGED <<active_recordings, files, meetings, tasks, now, started>>

\* the frames joined last to first
RECURSIVE JoinReversed(_)
JoinReversed(audio_buffer) ==
    IF audio_buffer = <<>> THEN <<>>
    ELSE JoinReversed(Tail(audio_buffer)) \o Head(audio_buffer)

\* b''.join(audio_buffer)
RECURSIVE Join(_)
Join(audio_buffer) ==
    IF audio_buffer = <<>> THEN <<>>
    ELSE Head(audio_buffer) \o Join(Tail(audio_buffer))

\* an exception leaves the handler: the coroutine ends, its caller gets the error
Raise(task, cause) ==
    [task EXCEPT !.pc = "done", !.recording_data = 0,
                 !.result = [NoResult EXCEPT !.outcome = "Raised", !.cause = cause]]

\* stop_recording without its call of stop_listening (lines 83-84)
StopRecordingEnterListening(t, task) ==
    LET server_id == task.server_id IN
    IF server_id \notin DOMAIN recordings
    THEN /\ tasks' = [tasks EXCEPT ![t] = Raise(task, "No active recording")]
         /\ UNCHANGED <<recordings, heap, listening>>
    ELSE LET rd == recordings[server_id]
             stopped == [heap EXCEPT ![rd].auto_stop_task =
                            IF @ = "pending" THEN "cancelled" ELSE @]
         IN
         /\ UNCHANGED listening
         /\ IF heap[rd].cancelled
            THEN /\ recordings' = Del(recordings, server_id)
                 /\ tasks' = [tasks EXCEPT ![t] = Raise(task, "Recording was cancelled")]
                 /\ heap' = Free(stopped, recordings', tasks')
            ELSE IF heap[rd].audio_buffer = <<>>
            THEN /\ tasks' = [tasks EXCEPT ![t] = Raise(task, "No audio data recorded")]
                 /\ heap' = stopped
                 /\ UNCHANGED recordings
            ELSE /\ tasks' = [tasks EXCEPT ![t] =
                        [task EXCEPT !.pc = "executor", !.recording_data = rd,
                                     !.finalized = rd, !.file_path = FilePath(server_id, now)]]
                 /\ heap' = stopped
                 /\ UNCHANGED recordings

\* stop_recording with a _save_audio_file that lacks the check of an empty buffer
\* (lines 120-121)
StopRecordingEnterUnchecked(t, task) ==
    LET server_id == task.server_id IN
    IF server_id \notin DOMAIN recordings
    THEN /\ tasks' = [tasks EXCEPT ![t] = Raise(task, "No active recording")]
         /\ UNCHANGED <<recordings, heap, listening>>
    ELSE LET rd == recordings[server_id]
             stopped == [heap EXCEPT ![rd].auto_stop_task =
                            IF @ = "pending" THEN "cancelled" ELSE @]
         IN
         /\ listening' = [listening EXCEPT ![server_id] = FALSE]
         /\ IF heap[rd].cancelled
            THEN /\ recordings' = Del(recordings, server_id)
                 /\ tasks' = [tasks EXCEPT ![t] = Raise(task, "Recording was cancelled")]
                 /\ heap' = Free(stopped, recordings', tasks')
            ELSE /\ tasks' = [tasks EXCEPT ![t] =
                        [task EXCEPT !.pc = "executor", !.recording_data = rd,
                                     !.finalized = rd, !.file_path = FilePath(server_id, now)]]
                 /\ heap' = stopped
                 /\ UNCHANGED recordings

\* AudioProcessor.stop_recording up to its first suspension (the executor call of
\* _save_audio_file), for the handler `task` that calls it
StopRecordingEnter(t, task) ==
    LET server_id == task.server_id IN
    IF server_id \notin DOMAIN recordings
    THEN /\ tasks' = [tasks EXCEPT ![t] = Raise(task, "No active recording")]
         /\ UNCHANGED <<recordings, heap, listening>>
    ELSE LET rd == recordings[server_id]
             stopped == [heap EXCEPT ![rd].auto_stop_task =
                            IF @ = "pending" THEN "cancelled" ELSE @]
         IN
         /\ listening' = [listening EXCEPT ![server_id] = FALSE]
         /\ IF heap[rd].cancelled
            THEN /\ recordings' = Del(recordings, server_id)
                 /\ tasks' = [tasks EXCEPT ![t] = Raise(task, "Recording was cancelled")]
                 /\ heap' = Free(stopped, recordings', tasks')
            ELSE IF heap[rd].audio_buffer = <<>>
            THEN /\ tasks' = [tasks EXCEPT ![t] = Raise(task, "No audio data recorded")]
                 /\ heap' = stopped
                 /\ UNCHANGED recordings
            ELSE /\ tasks' = [tasks EXCEPT ![t] =
                        [task EXCEPT !.pc = "executor", !.recording_data = rd,
                                     !.finalized = rd, !.file_path = FilePath(server_id, now)]]
                 /\ heap' = stopped
                 /\ UNCHANGED recordings

\* process_audio, in the executor thread: the WAV file is written
ProcessAudio(t) ==
    /\ tasks[t].pc = "executor"
    /\ files' = Put(files, tasks[t].file_path, Join(heap[tasks[t].recording_data].audio_buffer))
    /\ tasks' = [tasks EXCEPT ![t].pc = "written"]
    /\ UNCHANGED <<recordings, heap, listening, active_recordings, meetings, now, started>>

\* ------------------------------------------------------------- main
\* start_meeting without its check of active_recordings (lines 66-68)
StartMeetingUnchecked(t, server_id, channel_id, given, has_voice_client) ==
    /\ tasks[t].pc = "idle"
    /\ LET reply(outcome) ==
               [tasks EXCEPT ![t] = [IdleTask EXCEPT !.pc = "done", !.kind = "start",
                   !.server_id = server_id, !.result = [NoResult EXCEPT !.outcome = outcome]]]
       IN
       IF ~has_voice_client
       THEN /\ tasks' = reply("NoVoiceClient")
            /\ UNCHANGED <<recordings, heap, listening, active_recordings, started>>
       ELSE /\ started < MaxSessions
            /\ started' = started + 1
            /\ StartRecording(server_id, started + 1)
            /\ active_recordings' = Put(active_recordings, server_id,
                   [session_id |-> started + 1, meeting_name |-> MeetingName(given, now),
                    start_time |-> now, channel_id |-> channel_id])
            /\ tasks' = reply("Started")
    /\ UNCHANGED <<files, meetings, now>>

\* main.start_meeting
StartMeeting(t, server_id, channel_id, given, has_voice_client) ==
    /\ tasks[t].pc = "idle"
    /\ LET reply(outcome) ==
               [tasks EXCEPT ![t] = [IdleTask EXCEPT !.pc = "done", !.kind = "start",
                   !.server_id = server_id, !.result = [NoResult EXCEPT !.outcome = outcome]]]
       IN
       IF ~has_voice_client
       THEN /\ tasks' = reply("NoVoiceClient")
            /\ UNCHANGED <<recordings, heap, listening, active_recordings, started>>
       ELSE IF server_id \in DOMAIN active_recordings
       THEN /\ tasks' = reply("AlreadyRecording")
            /\ UNCHANGED <<recordings, heap, listening, active_recordings, started>>
       ELSE /\ started < MaxSessions
            /\ started' = started + 1
            /\ StartRecording(server_id, started + 1)
            /\ active_recordings' = Put(active_recordings, server_id,
                   [session_id |-> started + 1, meeting_name |-> MeetingName(given, now),
                    start_time |-> now, channel_id |-> channel_id])
            /\ tasks' = reply("Started")
    /\ UNCHANGED <<files, meetings, now>>

\* stop_meeting that deletes its entry of active_recordings before it calls
\* stop_recording
StopMeetingReleasing(t, server_id) ==
    /\ tasks[t].pc = "idle"
    /\ tasks' = [tasks EXCEPT ![t] =
          IF server_id \notin DOMAIN active_recordings
          THEN [IdleTask EXCEPT !.pc = "done", !.kind = "stop", !.server_id = server_id,
                                !.result = [NoResult EXCEPT !.outcome = "NoActiveSession"]]
          ELSE [IdleTask EXCEPT !.pc = "stopping", !.kind = "stop", !.server_id = server_id,
                                !.session = active_recordings[server_id]]]
    /\ active_recordings' = Del(active_recordings, server_id)
    /\ UNCHANGED <<recordings, heap, listening, files, meetings, now, started>>

\* main.stop_meeting, lines 93-100: the check of active_recordings, up to the first send
StopMeeting(t, server_id) ==
    /\ tasks[t].pc = "idle"
    /\ tasks' = [tasks EXCEPT ![t] =
          IF server_id \notin DOMAIN active_recordings
          THEN [IdleTask EXCEPT !.pc = "done", !.kind = "stop", !.server_id = server_id,
                                !.result = [NoResult EXCEPT !.outcome = "NoActiveSession"]]
          ELSE [IdleTask EXCEPT !.pc = "stopping", !.kind = "stop", !.server_id = server_id,
                                !.session = active_recordings[server_id]]]
    /\ UNCHANGED <<recordings, heap, listening, active_recordings, files, meetings, now,
                   started>>

\* main.stop_meeting, line 103: the call of stop_recording
StopRecordingCall(t) ==
    /\ tasks[t].pc = "stopping"
    /\ StopRecordingEnter(t, tasks[t])
    /\ UNCHANGED <<active_recordings, files, meetings, now, started>>

\* main.on_voice_state_update: the bot was disconnected from the server's voice channel
OnVoiceStateUpdate(t, server_id) ==
    /\ tasks[t].pc = "idle"
    /\ LET task == [IdleTask EXCEPT !.kind = "disrupt", !.server_id = server_id] IN
       IF server_id \notin DOMAIN active_recordings
       THEN /\ tasks' = [tasks EXCEPT ![t] =
                   [task EXCEPT !.pc = "done", !.result = [NoResult EXCEPT !.outcome = "Ignored"]]]
            /\ UNCHANGED <<recordings, heap, listening>>
       ELSE StopRecordingEnter(t, task)
    /\ UNCHANGED <<active_recordings, files, meetings, now, started>>

\* AudioProcessor.stop_recording from the return of the executor call (line 100) to
\* the handler's next suspension: stop_meeting goes on to transcribe the file,
\* on_voice_state_update deletes the server's entry of active_recordings (line 214)
StopRecordingReturn(t) ==
    /\ tasks[t].pc = "written"
    /\ LET server_id == tasks[t].server_id IN
       IF server_id \notin DOMAIN recordings
       THEN /\ tasks' = [tasks EXCEPT ![t] = Raise(@, "KeyError")]
            /\ heap' = Free(heap, recordings, tasks')
            /\ UNCHANGED <<recordings, active_recordings>>
       ELSE /\ recordings' = Del(recordings, server_id)
            /\ IF tasks[t].kind = "stop"
               THEN /\ tasks' = [tasks EXCEPT ![t] =
                           [@ EXCEPT !.pc = "transcribing", !.recording_data = 0]]
                    /\ UNCHANGED active_recordings
               ELSE IF server_id \in DOMAIN active_recordings
               THEN /\ active_recordings' = Del(active_recordings, server_id)
                    /\ tasks' = [tasks EXCEPT ![t] =
                           [@ EXCEPT !.pc = "done", !.recording_data = 0,
                                     !.result = [NoResult EXCEPT !.outcome = "Disconnected"]]]
               ELSE /\ tasks' = [tasks EXCEPT ![t] = Raise(@, "KeyError")]
                    /\ UNCHANGED active_recordings
            /\ heap' = Free(heap, recordings', tasks')
    /\ UNCHANGED <<listening, files, meetings, now, started>>

\* main.stop_meeting, lines 146-148: the except clause that reports any stage's error
Except(task, stage, cause) ==
    [task EXCEPT !.pc = "replying",
                 !.failed = IF @ = "" THEN stage ELSE @,
                 !.result = [NoResult EXCEPT !.outcome = "Error", !.cause = cause]]

\* main.stop_meeting, lines 108-109: transcriber.transcribe(audio_file) returns a
\* transcript or raises; the engine cannot read a file that is not there
Transcribe(t, returned) ==
    /\ tasks[t].pc = "transcribing"
    /\ LET task == [tasks[t] EXCEPT !.stages = Append(@, "transcription")] IN
       IF tasks[t].file_path \notin DOMAIN files
       THEN tasks' = [tasks EXCEPT ![t] = Except(task, "transcription", "FileNotFound")]
       ELSE IF returned.how = "raise"
       THEN tasks' = [tasks EXCEPT ![t] = Except(task, "transcription", returned.value)]
       ELSE tasks' = [tasks EXCEPT ![t] =
                [task EXCEPT !.pc = "generating", !.transcription = returned.value]]
    /\ UNCHANGED <<recordings, heap, listening, active_recordings, files, meetings, now,
                   started>>

\* main.stop_meeting, lines 112-113: note_generator.generate_notes(transcription)
\* returns the notes, raises (the model cannot be loaded), or, when the completion
\* call fails inside _process_transcript, returns an error text as the notes
GenerateNotes(t, returned) ==
    /\ tasks[t].pc = "generating"
    /\ LET task == [tasks[t] EXCEPT !.stages = Append(@, "summarization"),
                                    !.notes_arg = tasks[t].transcription] IN
       IF returned.how = "raise"
       THEN tasks' = [tasks EXCEPT ![t] = Except(task, "summarization", returned.value)]
       ELSE IF returned.how = "swallow"
       THEN tasks' = [tasks EXCEPT ![t] =
                [task EXCEPT !.pc = "saving", !.notes = returned.value,
                             !.failed = "summarization"]]
       ELSE tasks' = [tasks EXCEPT ![t] =
                [task EXCEPT !.pc = "saving", !.notes = returned.value]]
    /\ UNCHANGED <<recordings, heap, listening, active_recordings, files, meetings, now,
                   started>>

\* Database.save_meeting: one row, its id the row number
SaveRow(task) ==
    [id |-> Len(meetings) + 1, server_id |-> task.server_id,
     channel_id |-> task.session.channel_id, meeting_name |-> task.session.meeting_name,
     start_time |-> task.session.start_time,
     transcript |-> task.transcription, notes |-> task.notes,
     finalized |-> task.finalized]  \* (history) the session the audio came from

\* main.stop_meeting, lines 116-144: db.save_meeting and, when it returned,
\* os.remove(audio_file) and the notes for the caller
SaveMeeting(t, returned) ==
    /\ tasks[t].pc = "saving"
    /\ LET task == [tasks[t] EXCEPT !.stages = Append(@, "persistence")] IN
       IF returned.how = "return"
       THEN /\ meetings' = Append(meetings, SaveRow(task))
            /\ IF task.file_path \in DOMAIN files
               THEN /\ files' = Del(files, task.file_path)
                    /\ tasks' = [tasks EXCEPT ![t] =
                          [task EXCEPT !.pc = "replying", !.removes = @ + 1,
                              !.result = [NoResult EXCEPT !.outcome = "Success",
                                  !.meeting_id = Len(meetings) + 1, !.notes = task.notes]]]
               ELSE /\ tasks' = [tasks EXCEPT ![t] = Except(task, "", "FileNotFound")]
                    /\ UNCHANGED files
       ELSE /\ tasks' = [tasks EXCEPT ![t] = Except(task, "persistence", returned.value)]
            /\ UNCHANGED <<files, meetings>>
    /\ UNCHANGED <<recordings, heap, listening, active_recordings, now, started>>

\* main.stop_meeting, line 151, after the last send: del active_recordings[server_id]
StopMeetingEnd(t) ==
    /\ tasks[t].pc = "replying"
    /\ IF tasks[t].server_id \in DOMAIN active_recordings
       THEN /\ active_recordings' = Del(active_recordings, tasks[t].server_id)
            /\ tasks' = [tasks EXCEPT ![t].pc = "done"]
       ELSE /\ tasks' = [tasks EXCEPT ![t] = Raise(@, "KeyError")]
            /\ UNCHANGED active_recordings
    /\ UNCHANGED <<recordings, heap, listening, files, meetings, now, started>>

\* the wall clock advances
Tick ==
    /\ now < MaxTime
    /\ now' = now + 1
    /\ UNCHANGED <<recordings, heap, listening, active_recordings, files, meetings,
                   tasks, started>>

\* the handler's coroutine object is dropped
Return(t) ==
    /\ tasks[t].pc = "done"
    /\ tasks' = [tasks EXCEPT ![t] = IdleTask]
    /\ UNCHANGED <<recordings, heap, listening, active_recordings, files, meetings,
                   now, started>>

\* ------------------------------------------------------------- collaborators
\* what a call of a collaborator can do: return a value or raise
Returns(values) == [how : {"return"}, value : values]
Raises == [how : {"raise"}, value : Causes]

\* Transcriber.transcribe
TranscribeOutcomes == Returns(Transcripts) \cup Raises

\* NoteGenerator.generate_notes: _initialize_model raises, _process_transcript
\* returns the notes or, on a failed completion, an error text
GenerateNotesOutcomes == Returns(NotesTexts) \cup [how : {"swallow"}, value : ErrorNotes] \cup Raises

\* Database.save_meeting; the row it returns is SaveRow
SaveMeetingOutcomes == Returns({""}) \cup Raises

\* ------------------------------------------------------------- specifications
\* One server, every input and every failure of the collaborators, two sessions.
Next ==
    \/ \E t \in TaskIds, c \in Channels, g \in GivenNames \cup {""}, v \in BOOLEAN :
          StartMeeting(t, 1, c, g, v) /\ started' <= FewSessions
    \/ \E d \in Frames : AudioSink(1, d)
    \/ \E sid \in SessionIds : AutoStopRecording(sid)
    \/ \E t \in TaskIds : StopMeeting(t, 1)
    \/ \E t \in TaskIds : StopRecordingCall(t)
    \/ \E t \in TaskIds : OnVoiceStateUpdate(t, 1)
    \/ \E t \in TaskIds : ProcessAudio(t)
    \/ \E t \in TaskIds : StopRecordingReturn(t)
    \/ \E t \in TaskIds, r \in TranscribeOutcomes : Transcribe(t, r)
    \/ \E t \in TaskIds, r \in GenerateNotesOutcomes : GenerateNotes(t, r)
    \/ \E t \in TaskIds, r \in SaveMeetingOutcomes : SaveMeeting(t, r)
    \/ \E t \in TaskIds : StopMeetingEnd(t)
    \/ \E t \in TaskIds : Return(t)
    \/ Tick

Spec == Init /\ [][Next]_vars

\* Every server, one meeting name, collaborators that succeed, two sessions within
\* one second.
NextServers ==
    \/ \E t \in TaskIds, s \in Servers, c \in Channels, g \in GivenNames :
          StartMeeting(t, s, c, g, TRUE) /\ started' <= FewSessions
    \/ \E s \in Servers, d \in Frames : AudioSink(s, d)
    \/ \E sid \in SessionIds : AutoStopRecording(sid)
    \/ \E t \in TaskIds, s \in Servers : StopMeeting(t, s)
    \/ \E t \in TaskIds : StopRecordingCall(t)
    \/ \E t \in TaskIds, s \in Servers : OnVoiceStateUpdate(t, s)
    \/ \E t \in TaskIds : ProcessAudio(t)
    \/ \E t \in TaskIds : StopRecordingReturn(t)
    \/ \E t \in TaskIds, r \in Returns(Transcripts) : Transcribe(t, r)
    \/ \E t \in TaskIds, r \in Returns(NotesTexts) : GenerateNotes(t, r)
    \/ \E t \in TaskIds, r \in Returns({""}) : SaveMeeting(t, r)
    \/ \E t \in TaskIds : StopMeetingEnd(t)
    \/ \E t \in TaskIds : Return(t)

SpecServers == Init /\ [][NextServers]_vars

\* Every server, one meeting name, collaborators that return or fail, two sessions
\* within one second.
NextPipelines ==
    \/ \E t \in TaskIds, s \in Servers, c \in Channels, g \in GivenNames :
          StartMeeting(t, s, c, g, TRUE) /\ started' <= FewSessions
    \/ \E s \in Servers, d \in Frames : AudioSink(s, d)
    \/ \E sid \in SessionIds : AutoStopRecording(sid)
    \/ \E t \in TaskIds, s \in Servers : StopMeeting(t, s)
    \/ \E t \in TaskIds : StopRecordingCall(t)
    \/ \E t \in TaskIds, s \in Servers : OnVoiceStateUpdate(t, s)
    \/ \E t \in TaskIds : ProcessAudio(t)
    \/ \E t \in TaskIds : StopRecordingReturn(t)
    \/ \E t \in TaskIds, r \in TranscribeOutcomes : Transcribe(t, r)
    \/ \E t \in TaskIds, r \in GenerateNotesOutcomes : GenerateNotes(t, r)
    \/ \E t \in TaskIds, r \in SaveMeetingOutcomes : SaveMeeting(t, r)
    \/ \E t \in TaskIds : StopMeetingEnd(t)
    \/ \E t \in TaskIds : Return(t)

SpecPipelines == Init /\ [][NextPipelines]_vars

\* One server, frames that differ in content and in length, collaborators that
\* succeed, three sessions within one second.
NextFrames ==
    \/ \E t \in TaskIds, c \in Channels, g \in GivenNames : StartMeeting(t, 1, c, g, TRUE)
    \/ \E d \in DistinctFrames : AudioSink(1, d)
    \/ \E sid \in SessionIds : AutoStopRecording(sid)
    \/ \E t \in TaskIds : StopMeeting(t, 1)
    \/ \E t \in TaskIds : StopRecordingCall(t)
    \/ \E t \in TaskIds : OnVoiceStateUpdate(t, 1)
    \/ \E t \in TaskIds : ProcessAudio(t)
    \/ \E t \in TaskIds : StopRecordingReturn(t)
    \/ \E t \in TaskIds, r \in Returns(Transcripts) : Transcribe(t, r)
    \/ \E t \in TaskIds, r \in Returns(NotesTexts) : GenerateNotes(t, r)
    \/ \E t \in TaskIds, r \in Returns({""}) : SaveMeeting(t, r)
    \/ \E t \in TaskIds : StopMeetingEnd(t)
    \/ \E t \in TaskIds : Return(t)

SpecFrames == Init /\ [][NextFrames]_vars

\* The same, with the event loop at work: the sleep of an auto-stop task that is not
\* cancelled comes to its end.
SpecTimers == SpecFrames /\ \A sid \in SessionIds : WF_vars(AutoStopRecording(sid))

\* ------------------------------------------------------------- claims
\* the handlers at work for a server
InFlight(s) == {t \in TaskIds : tasks[t].server_id = s /\ tasks[t].pc \notin {"idle", "done"}}

\* the step that ends handler t
Ends(t) == tasks[t].pc # "done" /\ tasks'[t].pc = "done"

Stages == <<"transcription", "summarization", "persistence">>

\* C1: a server has at most one live session: the session recordings holds for it is
\* the one active_recordings names, and no other session of the server takes frames;
\* and a start request for a server that has a session in recordings is answered
\* AlreadyRecording and changes neither map, nor any session's buffer, flag or timer,
\* nor the listening state.
C1_OneSessionPerServer ==
    /\ [](\A s \in DOMAIN recordings :
            /\ s \in DOMAIN active_recordings
            /\ active_recordings[s].session_id = recordings[s]
            /\ heap[recordings[s]].server_id = s)
    /\ [][\A t \in TaskIds, s \in Servers, c \in Channels, g \in GivenNames \cup {""} :
            (StartMeeting(t, s, c, g, TRUE) /\ s \in DOMAIN recordings)
            => /\ tasks'[t].result.outcome = "AlreadyRecording"
               /\ UNCHANGED <<recordings, heap, listening, active_recordings>>]_vars

\* C1 witness: a start request was refused while the server's session is recording,
\* frames in its buffer and its timer armed
C1_Witness ==
    \E t \in TaskIds :
        /\ tasks[t].kind = "start"
        /\ tasks[t].result.outcome = "AlreadyRecording"
        /\ tasks[t].server_id \in DOMAIN recordings
        /\ heap[recordings[tasks[t].server_id]].audio_buffer # <<>>
        /\ heap[recordings[tasks[t].server_id]].auto_stop_task = "pending"
        /\ listening[tasks[t].server_id]

\* C2: after any terminal outcome the server's slot is released: an entry of
\* active_recordings on which no handler is at work belongs to a session that is
\* still recording (in recordings, its auto-stop timer armed), so that nothing is
\* left that blocks start requests for good.
C2_SlotReleased ==
    \A s \in Servers :
        (s \in DOMAIN active_recordings /\ InFlight(s) = {})
        => (s \in DOMAIN recordings /\ heap[recordings[s]].auto_stop_task = "pending")

\* C3: once a stop request for a server has ended, however it ended, a stop request
\* that begins for the same server (no session started in between) is answered
\* NoActiveSession at once: it finalizes nothing and runs no pipeline.
C3_SecondStopIsNoActiveSession ==
    [][\A t1, t2 \in TaskIds, s \in Servers :
          ( /\ t1 # t2
            /\ tasks[t1].kind = "stop" /\ tasks[t1].pc = "done" /\ tasks[t1].server_id = s
            /\ StopMeeting(t2, s)
            /\ ~(s \in DOMAIN active_recordings
                 /\ active_recordings[s].session_id # tasks[t1].session.session_id) )
          => /\ tasks'[t2].pc = "done"
             /\ tasks'[t2].result.outcome = "NoActiveSession"]_vars

\* C4: when the auto-stop timer of a recording session (frames in its buffer) fires,
\* the session goes through the finalize path of a manual stop: after the step its
\* frames are held by a finalization in progress, on its way to the pipeline.
C4_AutoStopFinalizes ==
    [][\A sid \in SessionIds :
          ( /\ AutoStopRecording(sid)
            /\ heap[sid].server_id \in DOMAIN recordings
            /\ recordings[heap[sid].server_id] = sid
            /\ heap[sid].audio_buffer # <<>> )
          => \E t \in TaskIds :
                /\ tasks'[t].pc = "executor"
                /\ tasks'[t].recording_data = sid
                /\ heap'[sid].audio_buffer = heap[sid].audio_buffer]_vars

\* C5: a manual stop of a session with no frame ends with the error EmptyRecording,
\* runs no stage, saves no meeting and leaves no entry for the server in either map.
C5_EmptyStopReleases ==
    [][\A t \in TaskIds :
          ( /\ StopRecordingCall(t)
            /\ tasks[t].server_id \in DOMAIN recordings
            /\ heap[recordings[tasks[t].server_id]].audio_buffer = <<>>
            /\ ~heap[recordings[tasks[t].server_id]].cancelled )
          => /\ tasks'[t].pc = "done"
             /\ tasks'[t].result.cause = "No audio data recorded"
             /\ tasks'[t].stages = <<>>
             /\ meetings' = meetings
             /\ tasks[t].server_id \notin DOMAIN recordings'
             /\ tasks[t].server_id \notin DOMAIN active_recordings']_vars

\* C6: a disruption notification never fails, whatever the state of the session, and
\* when its handler ends neither map holds an entry for the server.
C6_DisruptionIsSafe ==
    [][\A t \in TaskIds :
          (Ends(t) /\ tasks'[t].kind = "disrupt")
          => /\ tasks'[t].result.outcome # "Raised"
             /\ tasks'[t].server_id \notin DOMAIN recordings'
             /\ tasks'[t].server_id \notin DOMAIN active_recordings']_vars

\* C7: the stages of a pipeline run start in the order transcription, summarization,
\* persistence; summarization is given the transcript transcription returned; and
\* persistence starts only when neither earlier stage has failed.
C7_StagesInOrder ==
    \A t \in TaskIds :
        /\ tasks[t].stages = SubSeq(Stages, 1, Len(tasks[t].stages))
        /\ Len(tasks[t].stages) >= 2
           => (tasks[t].transcription \in Transcripts
               /\ tasks[t].notes_arg = tasks[t].transcription)
        /\ (tasks[t].pc = "saving" \/ Len(tasks[t].stages) = 3)
           => tasks[t].failed \in {"", "persistence"}

\* C8: the audio file of a pipeline run is deleted exactly once, not before the run
\* has its outcome, and also when a stage failed: it is never deleted while a stage
\* is still to run, and when the handler ends it has been deleted once.
C8_FileDeletedOnce ==
    \A t \in TaskIds :
        /\ tasks[t].pc \in {"transcribing", "generating", "saving"} => tasks[t].removes = 0
        /\ (tasks[t].pc = "done" /\ tasks[t].stages # <<>>)
           => (tasks[t].removes = 1 /\ tasks[t].file_path \notin DOMAIN files)

\* C9: no meeting row holds the output of a failed stage: every row's transcript is
\* one the transcription engine returned and its notes are notes the summarization
\* engine produced, never the text of a failed summarization.
C9_NoFailedOutputSaved ==
    \A i \in 1..Len(meetings) :
        /\ meetings[i].transcript \in Transcripts
        /\ meetings[i].notes \in NotesTexts

\* C10: a run in which a stage failed ends with an error for the caller, never with a
\* success payload, and the error tells the stage: runs that failed in different
\* stages are not answered alike.
C10_FailureIsTagged ==
    \A t1, t2 \in TaskIds :
        LET ended(t) == tasks[t].pc \in {"replying", "done"} /\ tasks[t].failed # "" IN
        /\ ended(t1) => tasks[t1].result.outcome = "Error"
        /\ (ended(t1) /\ ended(t2) /\ tasks[t1].failed # tasks[t2].failed)
           => tasks[t1].result # tasks[t2].result

\* the sessions a handler or recordings refers to
Referenced(recs, tks) ==
    {recs[s] : s \in DOMAIN recs} \cup {tks[t].recording_data : t \in TaskIds}

\* the number of bytes of the first n frames of a buffer
RECURSIVE Offset(_, _)
Offset(audio_buffer, n) ==
    IF n = 0 THEN 0 ELSE Offset(audio_buffer, n - 1) + Len(audio_buffer[n])

\* payload holds the bytes of every frame of the buffer, frame after frame
IsConcatenation(payload, audio_buffer) ==
    /\ Len(payload) = Offset(audio_buffer, Len(audio_buffer))
    /\ \A i \in 1..Len(audio_buffer) : \A j \in 1..Len(audio_buffer[i]) :
           payload[Offset(audio_buffer, i - 1) + j] = audio_buffer[i][j]

\* C11: the payload of a finalized container is the concatenation of the frames
\* appended to the session's buffer, in arrival order, none reordered, dropped or
\* duplicated: a buffer changes only by a frame added at its end (or is emptied once
\* nothing refers to it), and the file written for it holds its frames end to end.
C11_PayloadIsFramesInOrder ==
    [][/\ \A x \in DOMAIN heap :
            heap'[x].audio_buffer # heap[x].audio_buffer
            => \/ \E d \in DistinctFrames \cup Frames :
                      heap'[x].audio_buffer = Append(heap[x].audio_buffer, d)
               \/ /\ heap'[x].audio_buffer = <<>>
                  /\ x \notin Referenced(recordings', tasks')
       /\ \A t \in TaskIds :
            (tasks[t].pc = "executor" /\ tasks'[t].pc = "written")
            => /\ tasks[t].file_path \in DOMAIN files'
               /\ IsConcatenation(files'[tasks[t].file_path],
                                  heap[tasks[t].recording_data].audio_buffer)]_vars

\* C11 witness: a file was written for a buffer of two different frames, the longer
\* one first
C11_Witness ==
    \E t \in TaskIds :
        /\ tasks[t].pc = "written"
        /\ heap[tasks[t].recording_data].audio_buffer = << <<2, 3>>, <<1>> >>
        /\ files[tasks[t].file_path] = <<2, 3, 1>>

\* handler t calls stop_recording for server s in this step
CallsStopRecording(t, s) ==
    \/ StopRecordingCall(t) /\ tasks[t].server_id = s
    \/ OnVoiceStateUpdate(t, s) /\ s \in DOMAIN active_recordings

\* C12: finalizing a buffer with zero frames fails with the error EmptyRecording and
\* creates no file: the call of stop_recording on a session with an empty buffer
\* raises "No audio data recorded" and leaves the files as they are, no write for an
\* empty buffer is ever under way, and no file has a zero-length payload.
C12_EmptyFinalizeFails ==
    /\ [](/\ \A p \in DOMAIN files : files[p] # <<>>
          /\ \A t \in TaskIds :
                tasks[t].pc = "executor" => heap[tasks[t].recording_data].audio_buffer # <<>>)
    /\ [][\A t \in TaskIds, s \in Servers :
            ( /\ CallsStopRecording(t, s)
              /\ s \in DOMAIN recordings
              /\ ~heap[recordings[s]].cancelled
              /\ heap[recordings[s]].audio_buffer = <<>> )
            => /\ tasks'[t].pc = "done"
               /\ tasks'[t].result.outcome = "Raised"
               /\ tasks'[t].result.cause = "No audio data recorded"
               /\ files' = files]_vars

\* C12 witness: a stop of a session with no frame has raised, and there is no file
C12_Witness ==
    \E t \in TaskIds :
        /\ tasks[t].pc = "done"
        /\ tasks[t].result.cause = "No audio data recorded"
        /\ tasks[t].server_id \in DOMAIN recordings
        /\ heap[recordings[tasks[t].server_id]].audio_buffer = <<>>
        /\ files = <<>>

\* C13: a stop that ends with a saved meeting returns the id of a row of meetings,
\* and that row carries the server, channel, name and start time of the session whose
\* buffer this stop finalized: the entry of active_recordings the handler read is the
\* entry of that very session.
C13_RecordOfFinalizedSession ==
    \A t \in TaskIds :
        tasks[t].result.outcome = "Success"
        => /\ tasks[t].result.meeting_id \in 1..Len(meetings)
           /\ LET row == meetings[tasks[t].result.meeting_id] IN
              /\ row.server_id = heap[tasks[t].finalized].server_id
              /\ row.channel_id = tasks[t].session.channel_id
              /\ row.meeting_name = tasks[t].session.meeting_name
              /\ row.start_time = tasks[t].session.start_time
              /\ tasks[t].session.session_id = tasks[t].finalized

\* C14: a timer that a manual stop has cancelled never fires: it stays cancelled and
\* its fire action takes no step; and a manual stop that calls stop_recording for a
\* session whose timer has already fired raises no error and changes nothing of the
\* recorder's state.
C14_CancelledTimerNeverFires ==
    /\ [][\A x \in DOMAIN heap :
            heap[x].auto_stop_task = "cancelled"
            => (heap'[x].auto_stop_task = "cancelled" /\ ~AutoStopRecording(x))]_vars
    /\ [][\A t \in TaskIds :
            ( /\ StopRecordingCall(t)
              /\ heap[tasks[t].session.session_id].auto_stop_task = "done" )
            => /\ tasks'[t].result.outcome # "Raised"
               /\ UNCHANGED <<recordings, heap, listening>>]_vars

\* C15: a stop request or a disruption notification for a server that has no session
\* (no entry in recordings) is a no-op: the handler ends at once, answering
\* NoActiveSession or nothing, raises no error, and leaves both maps, every buffer,
\* every timer and the listening state as they are.
C15_NoSessionIsNoOp ==
    [][\A t \in TaskIds, s \in Servers :
          ( /\ StopMeeting(t, s) \/ OnVoiceStateUpdate(t, s)
            /\ s \notin DOMAIN recordings )
          => /\ tasks'[t].pc = "done"
             /\ tasks'[t].result.outcome \in {"NoActiveSession", "Ignored"}
             /\ UNCHANGED <<recordings, heap, listening, active_recordings>>]_vars

\* C16: of two start requests for the same server that are under way together, one
\* creates the session and the other is answered AlreadyRecording: a start request
\* either finds the server in active_recordings, is refused and changes nothing, or
\* finds the server in neither map and in one step creates one recording_data with an
\* empty buffer and an armed timer, puts it in recordings and its session in
\* active_recordings, touching no other session; every other request that has not
\* run yet then finds the server in active_recordings.
C16_OneStartWins ==
    [][\A t \in TaskIds, s \in Servers, c \in Channels, g \in GivenNames \cup {""} :
          StartMeeting(t, s, c, g, TRUE)
          => IF s \in DOMAIN active_recordings
             THEN /\ tasks'[t].result.outcome = "AlreadyRecording"
                  /\ UNCHANGED <<recordings, heap, listening, active_recordings>>
             ELSE /\ tasks'[t].result.outcome = "Started"
                  /\ s \notin DOMAIN recordings
                  /\ \E x \in SessionIds \ DOMAIN heap :
                        /\ DOMAIN heap' = DOMAIN heap \cup {x}
                        /\ heap'[x] = [audio_buffer |-> <<>>, server_id |-> s,
                                       cancelled |-> FALSE, auto_stop_task |-> "pending"]
                        /\ \A y \in DOMAIN heap : heap'[y] = heap[y]
                        /\ recordings' = Put(recordings, s, x)
                        /\ DOMAIN active_recordings' = DOMAIN active_recordings \cup {s}
                        /\ active_recordings'[s].session_id = x
                        /\ \A r \in DOMAIN active_recordings :
                              active_recordings'[r] = active_recordings[r]]_vars

\* C16 witness: two start requests for a server have run one after the other with no
\* suspension in between: one started the session, the other was refused
C16_Witness ==
    \E t1, t2 \in TaskIds :
        /\ tasks[t1].kind = "start" /\ tasks[t2].kind = "start"
        /\ tasks[t1].pc = "done" /\ tasks[t2].pc = "done"
        /\ tasks[t1].server_id = tasks[t2].server_id
        /\ tasks[t1].result.outcome = "Started"
        /\ tasks[t2].result.outcome = "AlreadyRecording"
        /\ tasks[t1].server_id \in DOMAIN active_recordings
        /\ active_recordings[tasks[t1].server_id].session_id = started
        /\ heap[started].audio_buffer = <<>>

\* C17: a manual stop that arrives while a stop or a disruption of the server's
\* session is still finalizing is answered NoActiveSession at once, and no session's
\* buffer is finalized by two handlers.
C17_FinalizedOnce ==
    /\ [](\A t1, t2 \in TaskIds :
            (t1 # t2 /\ tasks[t1].finalized # 0)
            => tasks[t1].finalized # tasks[t2].finalized)
    /\ [][\A t1, t2 \in TaskIds, s \in Servers :
            ( /\ t1 # t2
              /\ tasks[t1].server_id = s
              /\ tasks[t1].pc \in {"stopping", "executor", "written"}
              /\ StopMeeting(t2, s) )
            => /\ tasks'[t2].pc = "done"
               /\ tasks'[t2].result.outcome = "NoActiveSession"]_vars

\* session x is recording: recordings holds it, it is not cancelled, the transport
\* listens, and no stop_recording has taken it up
Recording(x) ==
    /\ \E s \in DOMAIN recordings : recordings[s] = x /\ listening[s]
    /\ ~heap[x].cancelled
    /\ \A t \in TaskIds : tasks[t].recording_data # x

\* C18: no frame is appended to the buffer of a session that has left the recording
\* state (stop_recording has taken it up, its auto-stop timer has fired, or a
\* disruption was handled): a buffer grows only while its session is recording.
C18_AppendOnlyWhileRecording ==
    [][\A x \in DOMAIN heap :
          Len(heap'[x].audio_buffer) > Len(heap[x].audio_buffer) => Recording(x)]_vars

\* C18 witness: while a stop still finalizes one session, a later session of the
\* server has taken a frame: the frame went to the later session's buffer
C18_Witness ==
    \E t \in TaskIds :
        LET s == tasks[t].server_id IN
        /\ tasks[t].pc \in {"executor", "written"}
        /\ s \in DOMAIN recordings
        /\ recordings[s] # tasks[t].recording_data
        /\ heap[recordings[s]].audio_buffer # <<>>
        /\ Len(heap[tasks[t].recording_data].audio_buffer) = 1

\* the audio sink of server s would append a frame to the buffer of session x
SinkAppendsTo(s, x) ==
    /\ listening[s]
    /\ s \in DOMAIN recordings
    /\ recordings[s] = x
    /\ ~heap[x].cancelled

\* C19: no frame is appended to a buffer while _save_audio_file works on it: from
\* the call to the return of the executor the audio sink cannot append to that
\* buffer (listening was stopped before), and the buffer does not change.
C19_NoAppendDuringFinalize ==
    /\ [](\A t \in TaskIds :
            tasks[t].pc \in {"executor", "written"}
            => ~SinkAppendsTo(tasks[t].server_id, tasks[t].recording_data))
    /\ [][\A t \in TaskIds :
            tasks[t].pc = "executor"
            => heap'[tasks[t].recording_data].audio_buffer
                   = heap[tasks[t].recording_data].audio_buffer]_vars

\* C19 witness: the executor works on the buffer of the session recordings holds,
\* two frames in it, and the transport does not listen
C19_Witness ==
    \E t \in TaskIds :
        LET s == tasks[t].server_id IN
        /\ tasks[t].pc = "executor"
        /\ s \in DOMAIN recordings
        /\ recordings[s] = tasks[t].recording_data
        /\ Len(heap[recordings[s]].audio_buffer) = 2
        /\ ~listening[s]

\* C20: a timer that was armed fires or is cancelled in the end, never both: once
\* it has fired or was cancelled its state does not change any more.  Of an expiry
\* and a manual stop of the same session the first decides: a session that a
\* stop_recording has taken up has a cancelled timer, which does not fire; and after
\* a session's timer has fired recordings does not hold the session and no
\* stop_recording takes it up.
C20_FiresOrCancelled ==
    /\ [](\A x \in DOMAIN heap :
            /\ (\E t \in TaskIds : tasks[t].recording_data = x)
               => heap[x].auto_stop_task = "cancelled"
            /\ heap[x].auto_stop_task = "done"
               => \A s \in DOMAIN recordings : recordings[s] # x)
    /\ [][\A x \in DOMAIN heap :
            heap[x].auto_stop_task # "pending"
            => heap'[x].auto_stop_task = heap[x].auto_stop_task]_vars
    /\ \A x \in SessionIds :
          [](x \in DOMAIN heap
             => <>(x \in DOMAIN heap /\ heap[x].auto_stop_task # "pending"))

\* C20 witness: the timer fired while stop_meeting was suspended before its call of
\* stop_recording; the call then found no recording; an earlier session's timer was
\* cancelled by its stop
C20_Witness ==
    \E t \in TaskIds, x \in DOMAIN heap :
        /\ tasks[t].kind = "stop"
        /\ tasks[t].result.cause = "No active recording"
        /\ heap[tasks[t].session.session_id].auto_stop_task = "done"
        /\ heap[x].auto_stop_task = "cancelled"

\* C21: a disruption of a session that is recording or being stopped sets the
\* session's cancelled flag, cancels its timer and stops listening, and discards the
\* frames: the handler hands no buffer to _save_audio_file, writes no file, runs no
\* stage, and no file of its making exists.
C21_DisruptionDiscards ==
    /\ [](\A t \in TaskIds :
            tasks[t].kind = "disrupt"
            => /\ tasks[t].pc \notin {"executor", "written"}
               /\ tasks[t].stages = <<>>
               /\ tasks[t].file_path \notin DOMAIN files)
    /\ [][\A t \in TaskIds, s \in Servers :
            (OnVoiceStateUpdate(t, s) /\ s \in DOMAIN recordings)
            => /\ heap'[recordings[s]].cancelled
               /\ heap'[recordings[s]].auto_stop_task # "pending"
               /\ ~listening'[s]
               /\ files' = files]_vars

\* C22: the cancelled flag of a session is set only by a disruption of that
\* session's server, never by the auto-stop timer: the step that sets the flag is a
\* step of on_voice_state_update, and a timer that fires leaves every flag as it is.
C22_CancelledOnlyByDisruption ==
    [][\A x \in DOMAIN heap :
          (~heap[x].cancelled /\ heap'[x].cancelled)
          => /\ \E t \in TaskIds : OnVoiceStateUpdate(t, heap[x].server_id)
             /\ \A sid \in SessionIds : ~AutoStopRecording(sid)]_vars

\* all that belongs to server s: its entries of the two maps, its listening state,
\* its sessions (buffer, flag, timer), its handlers, its files and its meetings
ServerView(s) ==
    [recordings |-> IF s \in DOMAIN recordings THEN recordings[s] ELSE 0,
     active_recordings |-> IF s \in DOMAIN active_recordings
                           THEN active_recordings[s] ELSE NoMeta,
     listening |-> listening[s],
     heap |-> [x \in {y \in DOMAIN heap : heap[y].server_id = s} |-> heap[x]],
     tasks |-> [t \in {u \in TaskIds : tasks[u].server_id = s} |-> tasks[t]],
     files |-> [p \in {q \in DOMAIN files : q[1] = s} |-> files[p]],
     meetings |-> SelectSeq(meetings, LAMBDA row : row.server_id = s)]

\* C23: the sessions of different servers are independent: a step that changes
\* anything of one server (its entries, its buffers, flags and timers, its handlers
\* and their pipeline progress, its files, its meetings) changes nothing of any other
\* server, so that what the other server's start, append and stop steps depend on
\* stays as it was.
C23_ServersIndependent ==
    [][\A a, b \in Servers :
          (a # b /\ ServerView(a)' # ServerView(a)) => ServerView(b)' = ServerView(b)]_vars

\* C23 witness: a stop of server 1 has ended with the error of a failed stage while
\* the session of server 2 records, frames in its buffer and its timer armed
C23_Witness ==
    /\ \E t \in TaskIds :
          /\ tasks[t].server_id = 1
          /\ tasks[t].pc = "done"
          /\ tasks[t].result.outcome = "Error"
    /\ 2 \in DOMAIN recordings
    /\ heap[recordings[2]].audio_buffer # <<>>
    /\ heap[recordings[2]].auto_stop_task = "pending"
    /\ listening[2]

\* C24: no timer outlives its session: a session whose auto-stop timer is pending
\* (armed, neither fired nor cancelled) is the session recordings holds for its
\* server, so a server with no entry in recordings has no pending timer.
C24_NoPendingTimerLeft ==
    \A x \in DOMAIN heap :
        heap[x].auto_stop_task = "pending"
        => /\ heap[x].server_id \in DOMAIN recordings
           /\ recordings[heap[x].server_id] = x

\* the handlers at work in a stage of the pipeline
InPipeline == {t \in TaskIds : tasks[t].pc \in {"transcribing", "generating", "saving"}}

\* C25: save_meeting is called at most once and the pipeline runs at most once for a
\* recording session: no two rows of meetings come from the audio of one session, no
\* handler is in a stage of the pipeline for a session that already has its row, and
\* no two handlers are in the pipeline for the same session.
C25_SavedOnce ==
    /\ \A i, j \in 1..Len(meetings) :
          i # j => meetings[i].finalized # meetings[j].finalized
    /\ \A t \in InPipeline, i \in 1..Len(meetings) :
          meetings[i].finalized # tasks[t].finalized
    /\ \A t1, t2 \in InPipeline :
          t1 # t2 => tasks[t1].finalized # tasks[t2].finalized

\* C26: every server that has an entry in AudioProcessor.recordings has an entry in
\* main.active_recordings.
C26_RecordingsWithinActive ==
    DOMAIN recordings \subseteq DOMAIN active_recordings

\* C26 witness: a stop has deleted the server's entry of recordings and is in the
\* pipeline, the entry of active_recordings still there, while the other server has
\* both entries
C26_Witness ==
    \E t \in TaskIds :
        /\ tasks[t].pc = "generating"
        /\ tasks[t].server_id \in DOMAIN active_recordings
        /\ tasks[t].server_id \notin DOMAIN recordings
        /\ recordings # <<>>

\* C27: the timer of one session never ends a later session of the server: when a
\* timer that fires deletes an entry of recordings, the entry holds the session the
\* timer was armed for.
C27_TimerEndsItsOwnSession ==
    [][\A sid \in SessionIds :
          (AutoStopRecording(sid) /\ recordings' # recordings)
          => recordings[heap[sid].server_id] = sid]_vars
====
